---- MODULE Spec2Model ----
(***************************************************************************)
(* The Citi Bike monitoring dashboard, frontend/frontend_monitor.py.       *)
(*                                                                         *)
(* The script fetches the predicted and the observed hourly rides for a   *)
(* time window, inner-joins them on (pickup_location_id, pickup_hour),    *)
(* offers the joined stations in a select box, and shows the absolute     *)
(* error of the selected station.  Both functions that fetch are wrapped  *)
(* in st.cache_data(ttl=300).                                              *)
(*                                                                         *)
(* Two specifications:                                                     *)
(*   EngineSpec  the merge and metric computation applied to every pair   *)
(*               of frames of at most MaxRows rows;                        *)
(*   Spec        the script run again and again (at most MaxRuns times)   *)
(*               against a clock, the two caches and an adapter that may  *)
(*               fail, with frames of at most one row.                     *)
(***************************************************************************)
EXTENDS Integers, Sequences, FiniteSets, TLC

\* ------------------------------------------------------------------ bounds

MaxRows == 2
MaxRuns == 2
ClockStep == 150
MaxClock == 450

\* ------------------------------------------------------- program constants

\* st.sidebar.slider(min_value=1, max_value=24 * 28, value=24, step=1)
SliderMin == 1
SliderMax == 672
SliderDefault == 24
\* @st.cache_data(ttl=300) on get_station_list and on load_station_data
ListTtl == 300
DataTtl == 300

\* ------------------------------------------------------------------- data

\* pickup_location_id values
Stations == {1, 2}

\* What st.sidebar.selectbox returns when it has no option; it equals no
\* pickup_location_id.
None == 0

\* pickup_hour values as the frames carry them.  Two of them spell the same
\* hour differently; the rides spell every hour one way.
PickupHours ==
  {"2025-01-01 01:00:00", "2025-01-01T01:00:00", "2025-01-01 02:00:00"}

RideHours == {"2025-01-01 01:00:00", "2025-01-01 02:00:00"}

\* The hour the dashboard specification's fetches return rows for.
LatestHour == "2025-01-01 02:00:00"

Demands == {3}
RideCounts == {1, 4}

PredRows(hours) ==
  [pickup_location_id : Stations, pickup_hour : hours, predicted_demand : Demands]

RideRows(hours) ==
  [pickup_location_id : Stations, pickup_hour : hours, rides : RideCounts]

\* The frames of at most n rows over a set of rows: a frame is the sequence
\* of its rows.
Frames(rows, n) == UNION {[1..k -> rows] : k \in 0..n}

\* The empty frame and the frames of one row.
SmallFrames(rows) == {<<>>} \cup {<<row>> : row \in rows}

\* ------------------------------------------------------------ pure helpers

Abs(x) == IF x < 0 THEN -x ELSE x

RECURSIVE Gcd(_, _)
Gcd(a, b) == IF b = 0 THEN a ELSE Gcd(b, a % b)

\* A non-negative rational in lowest terms.
Rational(n, d) == [num |-> n \div Gcd(n, d), den |-> d \div Gcd(n, d)]

RECURSIVE SeqSum(_)
SeqSum(s) == IF s = <<>> THEN 0 ELSE Head(s) + SeqSum(Tail(s))

RECURSIVE SeqMax(_)
SeqMax(s) ==
  IF Len(s) = 1 THEN s[1]
  ELSE LET m == SeqMax(Tail(s)) IN IF Head(s) >= m THEN Head(s) ELSE m

Reverse(s) == [i \in 1..Len(s) |-> s[Len(s) + 1 - i]]

\* ------------------------------------------------------------------ pandas

\* pd.to_datetime of one pickup_hour: the hour it names, as hours since
\* 2025-01-01 00:00.
ToDatetime(h) ==
  CASE h = "2025-01-01 01:00:00" -> 1
    [] h = "2025-01-01T01:00:00" -> 1
    [] h = "2025-01-01 02:00:00" -> 2

\* on=['pickup_location_id','pickup_hour']: both columns equal, as values.
JoinOnStationOnly(p, r) == p.pickup_location_id = r.pickup_location_id

JoinOnParsedHour(p, r) ==
  /\ p.pickup_location_id = r.pickup_location_id
  /\ ToDatetime(p.pickup_hour) = ToDatetime(r.pickup_hour)

JoinKeysEqual(p, r) ==
  /\ p.pickup_location_id = r.pickup_location_id
  /\ p.pickup_hour = r.pickup_hour

JoinedRow(p, r) ==
  [pickup_location_id |-> p.pickup_location_id,
   pickup_hour |-> p.pickup_hour,
   predicted_demand |-> p.predicted_demand,
   rides |-> r.rides]

RECURSIVE MatchesOf(_, _)
MatchesOf(p, right) ==
  IF right = <<>> THEN <<>>
  ELSE (IF JoinKeysEqual(p, Head(right)) THEN <<JoinedRow(p, Head(right))>> ELSE <<>>)
       \o MatchesOf(p, Tail(right))

\* pd.merge(left, right, on=[...], how='inner'): every pair of a left row and
\* a right row with equal keys, in the order of the left rows.
RECURSIVE PdMerge(_, _)
PdMerge(left, right) ==
  IF left = <<>> THEN <<>>
  ELSE MatchesOf(Head(left), right) \o PdMerge(Tail(left), right)

\* Series.unique(): the values in the order they first appear.
RECURSIVE UniqueFrom(_, _)
UniqueFrom(s, seen) ==
  IF s = <<>> THEN <<>>
  ELSE IF Head(s) \in seen THEN UniqueFrom(Tail(s), seen)
       ELSE <<Head(s)>> \o UniqueFrom(Tail(s), seen \cup {Head(s)})

PdUniqueKeepAll(s) == s

PdUnique(s) == UniqueFrom(s, {})

StationColumn(df) == [i \in 1..Len(df) |-> df[i].pickup_location_id]

\* df[df['pickup_location_id'] == station_id]
FilterNoneIsAll(df, station_id) ==
  IF station_id = None THEN df
  ELSE SelectSeq(df, LAMBDA row : row.pickup_location_id = station_id)

FilterStation(df, station_id) ==
  SelectSeq(df, LAMBDA row : row.pickup_location_id = station_id)

\* df['timestamp'] = pd.to_datetime(df['pickup_hour'])
WithTimestamp(df) ==
  [i \in 1..Len(df) |->
     [pickup_location_id |-> df[i].pickup_location_id,
      pickup_hour |-> df[i].pickup_hour,
      predicted_demand |-> df[i].predicted_demand,
      rides |-> df[i].rides,
      timestamp |-> ToDatetime(df[i].pickup_hour)]]

\* A row put into a frame sorted by timestamp, after the rows that are not
\* later than it.
RECURSIVE InsertByTimestamp(_, _)
InsertByTimestamp(row, sorted) ==
  IF sorted = <<>> THEN <<row>>
  ELSE IF Head(sorted).timestamp <= row.timestamp
       THEN <<Head(sorted)>> \o InsertByTimestamp(row, Tail(sorted))
       ELSE <<row>> \o sorted

RECURSIVE StableSort(_)
StableSort(df) ==
  IF df = <<>> THEN <<>>
  ELSE InsertByTimestamp(df[Len(df)], StableSort(SubSeq(df, 1, Len(df) - 1)))

\* df.sort_values('timestamp', inplace=True): the default kind is quicksort,
\* which need not keep rows of equal timestamp in their order; the outcomes
\* are the two extreme orders of the ties.
SortSkipped(df) == {df}

SortValues(df) == {StableSort(df), StableSort(Reverse(df))}

\* ---------------------------------------------------------- the two functions

\* get_station_list, line 39: merged['pickup_location_id'].unique().tolist()
StationList(joined) == PdUnique(StationColumn(joined))

\* load_station_data, lines 54-57, of the joined frame: the frames the
\* function may return.
StationSeries(joined, station_id) ==
  SortValues(WithTimestamp(FilterStation(joined, station_id)))

\* -------------------------------------------------------------- the summary

SignedError(row) == row.predicted_demand - row.rides

\* (data['predicted_demand'] - data['rides']).abs(), of one row
AbsoluteError(row) == Abs(row.predicted_demand - row.rides)

\* data['error'] = ...
WithError(df) ==
  [i \in 1..Len(df) |->
     [pickup_location_id |-> df[i].pickup_location_id,
      pickup_hour |-> df[i].pickup_hour,
      predicted_demand |-> df[i].predicted_demand,
      rides |-> df[i].rides,
      timestamp |-> df[i].timestamp,
      error |-> AbsoluteError(df[i])]]

ErrorColumn(df) == [i \in 1..Len(df) |-> df[i].error]

\* What pandas gives for the mean or the max of an empty column.
NaN == [num |-> 0, den |-> 0]

\* Series.mean()
MeanTruncated(col) ==
  IF col = <<>> THEN NaN ELSE Rational(SeqSum(col) \div Len(col), 1)

Mean(col) == IF col = <<>> THEN NaN ELSE Rational(SeqSum(col), Len(col))

\* Series.max()
Max(col) == IF col = <<>> THEN NaN ELSE Rational(SeqMax(col), 1)

\* f"{x:.2f}": x in hundredths, rounded to the nearest, a tie to the even
\* one; "nan" for NaN.
Format2(x) ==
  IF x.den = 0 THEN [nan |-> TRUE, hundredths |-> 0]
  ELSE LET scaled == 100 * x.num
           q == scaled \div x.den
           rest == scaled - q * x.den
       IN  [nan |-> FALSE,
            hundredths |-> IF 2 * rest < x.den THEN q
                           ELSE IF 2 * rest > x.den THEN q + 1
                           ELSE IF q % 2 = 0 THEN q ELSE q + 1]

\* The three st.metric calls, lines 71-73.
Metrics(df, avg) ==
  [average_error |-> Format2(avg),
   max_error |-> Format2(Max(ErrorColumn(df))),
   data_points |-> Len(df)]

\* data.empty, line 60
EmptyNeverChecked(df) == FALSE

IsEmpty(df) == Len(df) = 0

\* ------------------------------------------------------------------- state

VARIABLES
  now,               \* the clock st.cache_data reads, in seconds
  runs,              \* script runs started
  time_window,       \* the slider's value
  pc,                \* where the script run is
  list_cache,        \* get_station_list's cache
  data_cache,        \* load_station_data's cache
  dp,                \* the predictions the running call fetched (dp, df_pred)
  dr,                \* the rides the running call fetched (dr, df_obs)
  merged,            \* the join the engine's last step computed (merged, df)
  stations,          \* get_station_list's result
  selected_station,  \* the select box's value
  data,              \* load_station_data's result, then with its error column
  avg_error,         \* <<>> until line 66 sets it
  metrics,           \* <<>> until lines 71-73 show them
  outcome,           \* what the run has put on the page
  failed,            \* the fetch that raised in this run, if one did
  served             \* how the last call of a cached function got its result

vars ==
  <<now, runs, time_window, pc, list_cache, data_cache, dp, dr, merged,
    stations, selected_station, data, avg_error, metrics, outcome, failed,
    served>>

\* The slider values a run may have.
Windows == {h \in {SliderMin, SliderDefault} : SliderMin <= h /\ h <= SliderMax}

\* Lines 60-73: the warning and st.stop() for an empty series, else the
\* error column, the average and the metrics.  The charts that follow read
\* data and avg_error and change neither.
FromLine60(done) ==
  /\ IF IsEmpty(data)
       THEN /\ outcome' = "warning"
            /\ UNCHANGED <<data, avg_error, metrics>>
       ELSE /\ data' = WithError(data)
            /\ avg_error' = <<Mean(ErrorColumn(data'))>>
            /\ metrics' = <<Metrics(data', avg_error'[1])>>
            /\ outcome' = "rendered"
  /\ pc' = done

\* ------------------------------------------- the engine on its own: EngineSpec

EngineInit ==
  /\ dp \in Frames(PredRows(PickupHours), MaxRows)
  /\ dr \in Frames(RideRows(RideHours), MaxRows)
  /\ pc = "engine"
  /\ now = 0
  /\ runs = 0
  /\ time_window = SliderDefault
  /\ list_cache = {}
  /\ data_cache = {}
  /\ merged = <<>>
  /\ stations = <<>>
  /\ selected_station = None
  /\ data = <<>>
  /\ avg_error = <<>>
  /\ metrics = <<>>
  /\ outcome = "running"
  /\ failed = "none"
  /\ served = <<>>

\* get_station_list's body on the frames, lines 38-39.
EngineCatalog ==
  /\ pc = "engine"
  /\ merged' = PdMerge(dp, dr)
  /\ stations' = StationList(merged')
  /\ pc' = "engine_series"
  /\ UNCHANGED <<now, runs, time_window, list_cache, data_cache, dp, dr,
                 selected_station, data, avg_error, metrics, outcome, failed,
                 served>>

\* load_station_data's body on the frames, lines 49-57, for any station_id.
EngineSeries ==
  /\ pc = "engine_series"
  /\ \E station_id \in Stations \cup {None} :
       /\ selected_station' = station_id
       /\ merged' = PdMerge(dp, dr)
       /\ data' \in StationSeries(merged', station_id)
  /\ pc' = "engine_summary"
  /\ UNCHANGED <<now, runs, time_window, list_cache, data_cache, dp, dr,
                 stations, avg_error, metrics, outcome, failed,
                 served>>

\* Lines 60-73 on the series.
EngineSummary ==
  /\ pc = "engine_summary"
  /\ FromLine60("engine_done")
  /\ UNCHANGED <<now, runs, time_window, list_cache, data_cache, dp, dr,
                 merged, stations, selected_station, failed, served>>

EngineNext == EngineCatalog \/ EngineSeries \/ EngineSummary

EngineSpec == EngineInit /\ [][EngineNext]_vars

\* ------------------------------------------------------ the dashboard: Spec

\* What fetch_predictions(hours) and fetch_hourly_rides(hours) may return.
FetchedPredictions(hours) == SmallFrames(PredRows({LatestHour}))

FetchedRides(hours) == SmallFrames(RideRows({LatestHour}))

\* st.cache_data keys an entry by the arguments of the call.
ListKey(hours) == <<hours>>

DataKey(station_id, hours) == <<station_id, hours>>

\* ttl: an entry is served while it is younger than ttl seconds.
NeverStale(entry, ttl) == TRUE

Fresh(entry, ttl) == now - entry.at < ttl

Lookup(cache, key, ttl) == {e \in cache : e.key = key /\ Fresh(e, ttl)}

\* A result stored under its key at the current time; the entry it replaces
\* and the expired ones are dropped.
Store(cache, key, args, value, ttl) ==
  {e \in cache : e.key # key /\ Fresh(e, ttl)}
    \cup {[key |-> key, args |-> args, at |-> now, value |-> value]}

Init ==
  /\ now = 0
  /\ runs = 0
  /\ time_window = SliderDefault
  /\ pc = "idle"
  /\ list_cache = {}
  /\ data_cache = {}
  /\ dp = <<>>
  /\ dr = <<>>
  /\ merged = <<>>
  /\ stations = <<>>
  /\ selected_station = None
  /\ data = <<>>
  /\ avg_error = <<>>
  /\ metrics = <<>>
  /\ outcome = "running"
  /\ failed = "none"
  /\ served = <<>>

\* Time passes, between runs and during them.
Tick ==
  /\ now + ClockStep <= MaxClock
  /\ now' = now + ClockStep
  /\ UNCHANGED <<runs, time_window, pc, list_cache, data_cache, dp, dr, merged,
                 stations, selected_station, data, avg_error, metrics, outcome,
                 failed, served>>

\* The script runs from its top: the first time with the slider's default,
\* later whenever the user moves the slider or picks a station.
Rerun ==
  /\ pc = "idle"
  /\ runs < MaxRuns
  /\ runs' = runs + 1
  /\ \E hours \in Windows :
       /\ runs = 0 => hours = SliderDefault
       /\ time_window' = hours
  /\ pc' = "get_station_list"
  /\ dp' = <<>>
  /\ dr' = <<>>
  /\ merged' = <<>>
  /\ stations' = <<>>
  /\ selected_station' = None
  /\ data' = <<>>
  /\ avg_error' = <<>>
  /\ metrics' = <<>>
  /\ outcome' = "running"
  /\ failed' = "none"
  /\ served' = <<>>
  /\ UNCHANGED <<now, list_cache, data_cache>>

\* An exception nothing catches: Streamlit shows it and the run is over.
SwallowedAsEmpty(fetch, next) ==
  /\ pc' = next
  /\ UNCHANGED <<outcome, dp, dr>>

Uncaught(fetch, next) ==
  /\ outcome' = "exception"
  /\ pc' = "idle"
  /\ dp' = <<>>
  /\ dr' = <<>>

\* fetch_predictions(hours) returns a frame or raises.
FetchPredictions(at, next) ==
  /\ pc = at
  /\ \/ /\ dp' \in FetchedPredictions(time_window)
        /\ pc' = next
        /\ UNCHANGED <<dr, outcome, failed>>
     \/ /\ failed' = "fetch_predictions"
        /\ Uncaught("fetch_predictions", next)
  /\ UNCHANGED <<now, runs, time_window, list_cache, data_cache, merged,
                 stations, selected_station, data, avg_error, metrics, served>>

\* fetch_hourly_rides(hours) returns a frame or raises.
FetchHourlyRides(at, next) ==
  /\ pc = at
  /\ \/ /\ dr' \in FetchedRides(time_window)
        /\ pc' = next
        /\ UNCHANGED <<dp, outcome, failed>>
     \/ /\ failed' = "fetch_hourly_rides"
        /\ Uncaught("fetch_hourly_rides", next)
  /\ UNCHANGED <<now, runs, time_window, list_cache, data_cache, merged,
                 stations, selected_station, data, avg_error, metrics, served>>

\* Line 40: get_station_list(time_window), answered by the cache when it
\* holds a fresh entry for the key.
CallGetStationList ==
  /\ pc = "get_station_list"
  /\ LET hits == Lookup(list_cache, ListKey(time_window), ListTtl) IN
       IF hits = {}
         THEN /\ pc' = "list_fetch_predictions"
              /\ UNCHANGED <<stations, served>>
         ELSE \E e \in hits :
                /\ stations' = e.value
                /\ served' = <<[fn |-> "get_station_list", cached |-> TRUE,
                                age |-> now - e.at, stored_for |-> e.args]>>
                /\ pc' = "selectbox"
  /\ UNCHANGED <<now, runs, time_window, list_cache, data_cache, dp, dr, merged,
                 selected_station, data, avg_error, metrics, outcome, failed>>

\* Line 36
ListFetchPredictions ==
  FetchPredictions("list_fetch_predictions", "list_fetch_rides")

\* Line 37
ListFetchRides == FetchHourlyRides("list_fetch_rides", "list_merge")

\* Lines 38-39, and the cache keeping what the function returns.
ListReturn ==
  /\ pc = "list_merge"
  /\ stations' = StationList(PdMerge(dp, dr))
  /\ list_cache' = Store(list_cache, ListKey(time_window), <<time_window>>,
                         stations', ListTtl)
  /\ served' = <<[fn |-> "get_station_list", cached |-> FALSE, age |-> 0,
                  stored_for |-> <<time_window>>]>>
  /\ dp' = <<>>
  /\ dr' = <<>>
  /\ pc' = "selectbox"
  /\ UNCHANGED <<now, runs, time_window, data_cache, merged, selected_station,
                 data, avg_error, metrics, outcome, failed>>

\* Line 41: the select box returns one of its options, the user's choice
\* among them, and None when it has none.
SelectStation ==
  /\ pc = "selectbox"
  /\ IF stations = <<>>
       THEN selected_station' = None
       ELSE \E i \in 1..Len(stations) : selected_station' = stations[i]
  /\ pc' = "load_station_data"
  /\ UNCHANGED <<now, runs, time_window, list_cache, data_cache, dp, dr, merged,
                 stations, data, avg_error, metrics, outcome, failed, served>>

\* Line 59: load_station_data(selected_station, time_window), answered by the
\* cache when it holds a fresh entry for the key; the caller gets a copy.
CallLoadStationData ==
  /\ pc = "load_station_data"
  /\ LET hits == Lookup(data_cache, DataKey(selected_station, time_window),
                        DataTtl) IN
       IF hits = {}
         THEN /\ pc' = "data_fetch_predictions"
              /\ UNCHANGED <<data, served>>
         ELSE \E e \in hits :
                /\ data' = e.value
                /\ served' = <<[fn |-> "load_station_data", cached |-> TRUE,
                                age |-> now - e.at, stored_for |-> e.args]>>
                /\ pc' = "check_empty"
  /\ UNCHANGED <<now, runs, time_window, list_cache, data_cache, dp, dr, merged,
                 stations, selected_station, avg_error, metrics, outcome,
                 failed>>

\* Line 47
DataFetchPredictions ==
  FetchPredictions("data_fetch_predictions", "data_fetch_rides")

\* Line 48
DataFetchRides == FetchHourlyRides("data_fetch_rides", "data_merge")

\* Lines 49-57, and the cache keeping what the function returns.
DataReturn ==
  /\ pc = "data_merge"
  /\ data' \in StationSeries(PdMerge(dp, dr), selected_station)
  /\ data_cache' = Store(data_cache, DataKey(selected_station, time_window),
                         <<selected_station, time_window>>, data', DataTtl)
  /\ served' = <<[fn |-> "load_station_data", cached |-> FALSE, age |-> 0,
                  stored_for |-> <<selected_station, time_window>>]>>
  /\ dp' = <<>>
  /\ dr' = <<>>
  /\ pc' = "check_empty"
  /\ UNCHANGED <<now, runs, time_window, list_cache, merged, stations,
                 selected_station, avg_error, metrics, outcome, failed>>

\* Lines 60-113
ShowStation ==
  /\ pc = "check_empty"
  /\ FromLine60("idle")
  /\ UNCHANGED <<now, runs, time_window, list_cache, data_cache, dp, dr, merged,
                 stations, selected_station, failed, served>>

Next ==
  \/ Tick
  \/ Rerun
  \/ CallGetStationList
  \/ ListFetchPredictions
  \/ ListFetchRides
  \/ ListReturn
  \/ SelectStation
  \/ CallLoadStationData
  \/ DataFetchPredictions
  \/ DataFetchRides
  \/ DataReturn
  \/ ShowStation

Spec == Init /\ [][Next]_vars

\* ------------------------------------------------------------------ claims

HasKey(df, s, h) ==
  \E i \in 1..Len(df) : df[i].pickup_location_id = s /\ df[i].pickup_hour = h

KeysUnique(df) ==
  \A i, j \in 1..Len(df) :
    (df[i].pickup_location_id = df[j].pickup_location_id
       /\ df[i].pickup_hour = df[j].pickup_hour) => i = j

Min(a, b) == IF a <= b THEN a ELSE b

InCatalog(s) == \E i \in 1..Len(stations) : stations[i] = s

EngineJoined == pc \in {"engine_series", "engine_summary", "engine_done"}

EngineLoaded == pc \in {"engine_summary", "engine_done"}

\* C1: the join of get_station_list and of load_station_data holds a record
\* with key (s, h) exactly when the predictions hold a row with station s
\* and hour h and the rides hold one too, the hours compared as the values
\* the frames carry; the series of the requested station holds (s, h) under
\* the same condition.
C1_JoinIffBothSides ==
  /\ EngineJoined =>
       \A s \in Stations : \A h \in PickupHours :
         HasKey(merged, s, h) <=> (HasKey(dp, s, h) /\ HasKey(dr, s, h))
  /\ EngineLoaded =>
       \A s \in Stations \cup {None} : \A h \in PickupHours :
         HasKey(data, s, h) <=>
           (s = selected_station /\ HasKey(dp, s, h) /\ HasKey(dr, s, h))

\* C1's case: the same station and the same hour on both sides, spelled
\* differently, so nothing is joined for it, next to a key that is joined.
C1_Witness ==
  /\ pc = "engine_done"
  /\ Len(merged) = 1
  /\ \E i \in 1..Len(dp) : \E j \in 1..Len(dr) :
       /\ dp[i].pickup_location_id = dr[j].pickup_location_id
       /\ dp[i].pickup_hour # dr[j].pickup_hour
       /\ ToDatetime(dp[i].pickup_hour) = ToDatetime(dr[j].pickup_hour)
       /\ ~HasKey(merged, dp[i].pickup_location_id, dp[i].pickup_hour)

\* C2 as stated: the join never has more records than the smaller of the two
\* datasets, whatever keys they repeat.
C2_JoinAtMostMin == EngineJoined => Len(merged) <= Min(Len(dp), Len(dr))

\* C2, amended: when no key occurs twice in the rides the join has at most as
\* many records as the predictions, and when no key occurs twice in the
\* predictions at most as many as the rides; so at most the smaller of the
\* two when both hold.  In every case it has at most one record for each
\* pair of a prediction and a ride.
C2_JoinAtMostMinOfUniqueKeys ==
  EngineJoined =>
    /\ KeysUnique(dr) => Len(merged) <= Len(dp)
    /\ KeysUnique(dp) => Len(merged) <= Len(dr)
    /\ (KeysUnique(dp) /\ KeysUnique(dr)) => Len(merged) <= Min(Len(dp), Len(dr))
    /\ Len(merged) <= Len(dp) * Len(dr)

\* C2's case: two datasets of two rows with the keys unique, every row joined.
C2_Witness ==
  /\ pc = "engine_done"
  /\ KeysUnique(dp)
  /\ KeysUnique(dr)
  /\ Len(dp) = 2
  /\ Len(dr) = 2
  /\ Len(merged) = 2

\* C3: the series load_station_data returns is in non-decreasing order of the
\* parsed pickup_hour, and every record of it is of the requested station.
C3_SeriesSortedAndOfStation ==
  EngineLoaded =>
    /\ \A i, j \in 1..Len(data) :
         i < j => ToDatetime(data[i].pickup_hour) <= ToDatetime(data[j].pickup_hour)
    /\ \A i \in 1..Len(data) :
         /\ data[i].pickup_location_id = selected_station
         /\ data[i].timestamp = ToDatetime(data[i].pickup_hour)

\* C3's case: the later hour comes first in the predictions, the series has
\* both hours in order, and a row of another station was left out.
C3_Witness ==
  /\ pc = "engine_done"
  /\ Len(dp) = 2
  /\ ToDatetime(dp[1].pickup_hour) > ToDatetime(dp[2].pickup_hour)
  /\ Len(data) = 2
  /\ data[1].timestamp < data[2].timestamp

RECURSIVE SumOfAbsoluteErrors(_)
SumOfAbsoluteErrors(df) ==
  IF df = <<>> THEN 0
  ELSE LET d == Head(df).predicted_demand - Head(df).rides
       IN  (IF d < 0 THEN -d ELSE d) + SumOfAbsoluteErrors(Tail(df))

\* C4: when the series is not empty, avg_error is the sum of the absolute
\* errors of its records divided by their number, the maximum shown is the
\* largest of them, the count shown is the number of records, and the average
\* shown is avg_error to two decimals.
C4_SummaryOfSeries ==
  outcome = "rendered" =>
    /\ Len(data) >= 1
    /\ Len(avg_error) = 1
    /\ avg_error[1].den > 0
    /\ avg_error[1].num * Len(data) = SumOfAbsoluteErrors(data) * avg_error[1].den
    /\ Len(metrics) = 1
    /\ metrics[1].data_points = Len(data)
    /\ ~metrics[1].max_error.nan
    /\ \E i \in 1..Len(data) :
         metrics[1].max_error.hundredths = 100 * data[i].error
    /\ \A i \in 1..Len(data) :
         metrics[1].max_error.hundredths >= 100 * data[i].error
    /\ ~metrics[1].average_error.nan
    /\ LET off == 100 * avg_error[1].num
                    - metrics[1].average_error.hundredths * avg_error[1].den
       IN  2 * off <= avg_error[1].den /\ -2 * off <= avg_error[1].den

\* C4's case: two records with different errors, so the mean is no integer
\* and differs from the maximum.
C4_Witness ==
  /\ pc = "engine_done"
  /\ outcome = "rendered"
  /\ Len(data) = 2
  /\ data[1].error # data[2].error
  /\ avg_error[1].den = 2

\* C5: every record shown has absolute_error = |predicted_demand - rides|,
\* which is at least 0; the column is computed in the run that shows it: the
\* series has no error column before line 65, and no cached series has one.
C5_ErrorComputedEachRun ==
  /\ outcome = "rendered" =>
       \A i \in 1..Len(data) :
         LET d == data[i].predicted_demand - data[i].rides IN
           /\ "error" \in DOMAIN data[i]
           /\ data[i].error = (IF d < 0 THEN -d ELSE d)
           /\ data[i].error >= 0
  /\ outcome # "rendered" =>
       \A i \in 1..Len(data) : "error" \notin DOMAIN data[i]
  /\ \A e \in data_cache :
       \A i \in 1..Len(e.value) : "error" \notin DOMAIN e.value[i]

\* C5's case: a run that got its series from the cache and shows it, with
\* the prediction below the rides.
C5_Witness ==
  /\ outcome = "rendered"
  /\ served[1].fn = "load_station_data"
  /\ served[1].cached
  /\ data[1].predicted_demand < data[1].rides
  /\ data[1].error > 0

\* C6: a run whose series is empty shows the warning and stops with no error
\* column, average or metrics computed, and fetches nothing more; the
\* metrics are shown only in a run whose series has a record.
C6_EmptySeriesWarnsAndStops ==
  /\ outcome = "warning" =>
       /\ data = <<>>
       /\ avg_error = <<>>
       /\ metrics = <<>>
       /\ pc = "idle"
  /\ (outcome = "rendered" \/ avg_error # <<>> \/ metrics # <<>>) =>
       /\ outcome = "rendered"
       /\ Len(data) >= 1
       /\ avg_error # <<>>
       /\ metrics # <<>>
       /\ avg_error[1].den # 0
  /\ (pc = "idle" /\ runs > 0 /\ failed = "none") =>
       /\ outcome \in {"warning", "rendered"}
       /\ outcome = "warning" <=> data = <<>>

\* C6's case: a station of the catalog whose series is empty.
C6_Witness ==
  /\ outcome = "warning"
  /\ selected_station # None
  /\ InCatalog(selected_station)

\* The cached function whose call a fetch of this run failed in.
FailedInList == failed # "none" /\ served = <<>>

FailedInData == failed # "none" /\ served # <<>>

\* C7: when a fetch raises, the run ends at once with the exception: nothing
\* is fetched again, no series, average or metrics come of the frame that did
\* load, and the cache of the function that was running holds no entry that
\* a call with the same arguments would be served.
C7_FetchFailureAbortsRun ==
  failed # "none" =>
    /\ outcome = "exception"
    /\ pc = "idle"
    /\ dp = <<>>
    /\ dr = <<>>
    /\ data = <<>>
    /\ avg_error = <<>>
    /\ metrics = <<>>
    /\ FailedInList =>
         /\ stations = <<>>
         /\ \A e \in list_cache :
              e.args = <<time_window>> => now - e.at >= ListTtl
    /\ FailedInData =>
         /\ served[1].fn = "get_station_list"
         /\ \A e \in data_cache :
              e.args = <<selected_station, time_window>> => now - e.at >= DataTtl

\* C7's case: the catalog loaded, a station was chosen, and the second fetch
\* of load_station_data raised.
C7_Witness ==
  /\ failed = "fetch_hourly_rides"
  /\ stations # <<>>
  /\ selected_station # None

\* C8: get_station_list returns a station exactly when some hour of it is in
\* both datasets, and returns no station twice.
C8_CatalogIsDistinctJoinedStations ==
  EngineJoined =>
    /\ \A s \in Stations :
         InCatalog(s) <=>
           \E h \in PickupHours : HasKey(dp, s, h) /\ HasKey(dr, s, h)
    /\ \A i \in 1..Len(stations) : stations[i] \in Stations
    /\ \A i, j \in 1..Len(stations) : stations[i] = stations[j] => i = j

\* C8's case: a join of several records of one station, listed once, and a
\* station of the predictions that is not joined.
C8_Witness ==
  /\ pc = "engine_done"
  /\ Len(merged) >= 2
  /\ Len(stations) = 1
  /\ \E i \in 1..Len(dp) : ~InCatalog(dp[i].pickup_location_id)

\* C9: for a station_id that is not in the catalog of the same datasets, None
\* included, load_station_data returns no record, and lines 60-62 show the
\* warning and stop as for any empty series: no average, no metrics, no
\* other signal.
C9_UnknownStationIsEmptyResult ==
  (EngineLoaded /\ ~InCatalog(selected_station)) =>
    /\ data = <<>>
    /\ avg_error = <<>>
    /\ metrics = <<>>
    /\ outcome \in {"running", "warning"}
    /\ pc = "engine_done" => outcome = "warning"

\* C9's case: the catalog has a station, another one is asked for, and the
\* warning is shown.
C9_Witness ==
  /\ pc = "engine_done"
  /\ stations # <<>>
  /\ selected_station \in Stations
  /\ ~InCatalog(selected_station)
  /\ outcome = "warning"

CallArgs(fn) ==
  IF fn = "get_station_list" THEN <<time_window>>
  ELSE <<selected_station, time_window>>

TtlOf(fn) == IF fn = "get_station_list" THEN ListTtl ELSE DataTtl

\* Every entry the cache holds for the arguments is older than the expiry.
OnlyStale(cache, args, ttl) == \A e \in cache : e.args = args => now - e.at > ttl

C10_Served ==
  (served # <<>> /\ served[1].cached) =>
    /\ served[1].age <= TtlOf(served[1].fn)
    /\ served[1].stored_for = CallArgs(served[1].fn)

C10_Step ==
  /\ (pc = "get_station_list" /\ pc' # pc) =>
       /\ OnlyStale(list_cache, <<time_window>>, ListTtl) =>
            pc' = "list_fetch_predictions"
       /\ pc' = "selectbox" =>
            \E e \in list_cache :
              /\ e.args = <<time_window>>
              /\ now - e.at <= ListTtl
              /\ stations' = e.value
  /\ (pc = "load_station_data" /\ pc' # pc) =>
       /\ OnlyStale(data_cache, <<selected_station, time_window>>, DataTtl) =>
            pc' = "data_fetch_predictions"
       /\ pc' = "check_empty" =>
            \E e \in data_cache :
              /\ e.args = <<selected_station, time_window>>
              /\ now - e.at <= DataTtl
              /\ data' = e.value
  /\ (pc' = "list_fetch_rides" /\ pc' # pc) => pc = "list_fetch_predictions"
  /\ (pc' = "list_merge" /\ pc' # pc) => pc = "list_fetch_rides"
  /\ (pc' = "data_fetch_rides" /\ pc' # pc) => pc = "data_fetch_predictions"
  /\ (pc' = "data_merge" /\ pc' # pc) => pc = "data_fetch_rides"
  /\ (pc = "list_merge" /\ pc' # pc) =>
       /\ pc' = "selectbox"
       /\ stations' = StationList(PdMerge(dp, dr))
  /\ (pc = "data_merge" /\ pc' # pc) =>
       /\ pc' = "check_empty"
       /\ data' \in StationSeries(PdMerge(dp, dr), selected_station)

\* C10: a result served from either cache is at most 300 seconds old and was
\* stored by a call with the same arguments; a call that finds only entries
\* older than 300 seconds for its arguments runs fetch_predictions and
\* fetch_hourly_rides again and returns what the function computes of the
\* two new frames.
C10_CacheNeverServesStale == [](C10_Served) /\ [][C10_Step]_vars

\* C10's case: load_station_data is fetching again although the cache holds
\* an entry for the same arguments, which has expired.
C10_Witness ==
  /\ pc = "data_fetch_rides"
  /\ \E e \in data_cache :
       /\ e.args = <<selected_station, time_window>>
       /\ now - e.at >= DataTtl

====
